---- MODULE Spec2Model ----
(***************************************************************************)
(* DeskReminder scheduling engine (src/python/reminder_app/reminder_app.py) *)
(*                                                                         *)
(* Two threads share the Storage.reminders dict and two threading.Event    *)
(* objects: the Scheduler thread (Scheduler.run) and the Tk main thread    *)
(* (the App handlers).  The scheduler thread is modelled statement by      *)
(* statement (pc); a handler of the Tk thread is modelled as its store     *)
(* mutation followed, in a second step, by its scheduler.rebuild() call.   *)
(*                                                                         *)
(* Time is the wall clock now_utc(), counted in ticks of 0.1 second, the   *)
(* smallest duration the code distinguishes (the 0.1 s firing tolerance).  *)
(***************************************************************************)
EXTENDS Integers, Sequences, FiniteSets, TLC

(* ------------------------------ bounds -------------------------------- *)

\* number of reminder ids (uuid4 values) the presentation layer can draw
MaxIds == 2
\* number of clock advances in a behaviour
MaxTicks == 3
\* number of callback invocations recorded in a behaviour
MaxFires == 2
\* number of handler invocations of the presentation layer in a behaviour
MaxOps == 2
\* how many ticks the wall clock may lag the timer that ends Event.wait
ClockSkew == 1

(* -------------------------- program constants -------------------------- *)

\* Optional[...] = None
None == -1
\* cron_expr: Optional[str] = None
NoExpr == "None"
\* compute_next_run left by an exception instead of a return
Raised == -2
\* a delay so long that base_utc + timedelta(minutes=mins) leaves the range of
\* datetime (OverflowError); it stands for every such number of minutes
TooMany == 2147483647
\* the firing tolerance: heap[0][0] <= now_ts + 0.1
Tolerance == 1
\* the clamp of a past run_at (base + 1.0) and the fill tolerance (now_ts - 1)
OneSecond == 10
\* timedelta(minutes=1)
Minute == 600
\* the cap of the deadline wait, min(3600.0, ...)
MaxWait == 36000
\* the poll of the empty heap, wait(timeout=0.5)
EmptyPoll == 5
\* croniter was imported
HAVE_CRONITER == TRUE
\* the local timezone's offset from UTC (astimezone()), here UTC+8
UtcOffset == 8 * 60 * Minute

Ids == 1..MaxIds
\* the clock advances the model takes: a tick, and just under a minute
Steps == {1, Minute - 1}

\* what the create and edit forms can hold
DelayChoices == {1}
RunAtChoices == {Minute}
CronChoices == {"* * * * *"}

VARIABLES
    now,            \* the wall clock, now_utc(), in ticks
    ticks,          \* clock advances taken so far
    reminders,      \* Storage.reminders: id -> Reminder
    entries,        \* the dict's entry order: every id ever inserted, in order
    stop_event,     \* Scheduler._stop_event
    rebuild_event,  \* Scheduler._rebuild_event
    heap,           \* Scheduler._heap: a set of <<ts, id, seq>>
    seq,            \* Scheduler._seq
    pc,             \* the scheduler thread's position in run()
    fill_ret,       \* where _fill_heap returns to
    fill_i,         \* _fill_heap's dict iterator: position in entries
    fill_used,      \* _fill_heap's dict iterator: the dict's size when it began
    now_ts,         \* run()'s and _fill_heap's local now_ts
    wait_sec,       \* what is left of the timeout of the pending Event.wait
    rid,            \* run()'s local rid, r: the reminder being fired
    fire_ts,        \* the timestamp of the popped heap entry
    detached,       \* r's fields once r was removed from the dict while being fired
    ui_pc,          \* the Tk thread: idle, about to call rebuild(), inside stop(),
                    \* showing the error box of a rejected edit
    stop_returned,  \* stop() has returned
    pending,        \* rebuild() calls since the loop last cleared the signal
    ops,            \* handler invocations so far
    off_at,         \* per id: when the user disabled it, None once enabled again
    ui_hist,        \* per id: what the presentation layer did to it after creation
    fired,          \* the callback invocations, in order
    cycle_ts,       \* the timestamp delivered last since the latest _fill_heap
    filled_at,      \* now_ts of the latest _fill_heap, None before the first
    created_at,     \* per id: Reminder.created_at, None before it is created
    dir,            \* the data directory: which file reminders.json and
                    \* reminders.json.tmp name, None when the path is missing
    inodes,         \* per file: its content
    fh,             \* per writer: the file its open handle f refers to
    buf,            \* per writer: the list data it was called with
    prior,          \* per writer: the durable file when its save began
    wpc,            \* per writer: its position in save / atomic_write_json
    loaded          \* <<the reminders of a fresh Storage after load()>>, <<>> before

vars == <<now, ticks, reminders, entries, stop_event, rebuild_event, heap, seq,
          pc, fill_ret, fill_i, fill_used, now_ts, wait_sec, rid, fire_ts,
          detached, ui_pc, stop_returned, pending, ops, off_at, ui_hist, fired,
          cycle_ts, filled_at, created_at, dir, inodes, fh, buf, prior, wpc, loaded>>

file_vars == <<dir, inodes, fh, buf, prior, wpc, loaded>>

sched_vars == <<heap, seq, pc, fill_ret, fill_i, fill_used, now_ts, wait_sec,
                rid, fire_ts>>
ui_vars == <<ui_pc, stop_returned, ui_hist, off_at>>

(* ----------------------------- time utilities -------------------------- *)

\* base_utc.astimezone(): the local wall-clock reading of a UTC instant
astimezone(ts) == ts + UtcOffset

\* nxt_local.astimezone(timezone.utc), to_unix_ts: back to the UTC timestamp
to_unix_ts(local) == local - UtcOffset

\* an iterator that returns the base itself when the base matches
croniter_get_from(expr, base_local) ==
    IF expr = "* * * * *" THEN ((base_local + Minute - 1) \div Minute) * Minute
    ELSE IF expr = "*/5 * * * *"
         THEN ((base_local + 5 * Minute - 1) \div (5 * Minute)) * (5 * Minute)
    ELSE None

\* croniter(expr, base_local).get_next(datetime): the first local instant
\* strictly after base_local that matches the expression; None stands for
\* the exception croniter raises on an expression it cannot parse
croniter_get_next(expr, base_local) ==
    IF expr = "* * * * *" THEN ((base_local \div Minute) + 1) * Minute
    ELSE IF expr = "*/5 * * * *" THEN ((base_local \div (5 * Minute)) + 1) * (5 * Minute)
    ELSE None

(* ------------------------------ Reminder ------------------------------ *)

Reminder(k, delay, run_at, cron) ==
    [kind |-> k, delay_minutes |-> delay, run_at_ts |-> run_at, cron_expr |-> cron,
     enabled |-> TRUE, last_triggered_at |-> None, next_run_ts |-> None]

\* a datetime rule that is never taken as consumed
never_consumed(r) == FALSE

\* line 309: r.last_triggered_at is not None and r.run_at_ts <= r.last_triggered_at
consumed(r) == r.last_triggered_at # None /\ r.run_at_ts <= r.last_triggered_at

\* a past run_at returned as it is
keep_past(run_at, base_utc) == run_at

\* lines 311-313: a run_at that is not after the base is moved to base + 1.0
clamp_past(run_at, base_utc) ==
    IF run_at <= base_utc THEN base_utc + OneSecond ELSE run_at

\* lines 301-330: the next occurrence under the rule of r's kind
next_by_kind(r, base_utc) ==
    IF r.kind = "delay" THEN
        LET mins == IF r.delay_minutes = None THEN 0 ELSE r.delay_minutes
        IN  IF mins <= 0 THEN None
            ELSE IF mins >= TooMany THEN Raised
            ELSE base_utc + mins * Minute
    ELSE IF r.kind = "datetime" THEN
        IF r.run_at_ts = None THEN None
        ELSE IF consumed(r) THEN None
        ELSE clamp_past(r.run_at_ts, base_utc)
    ELSE IF r.kind = "cron" THEN
        IF ~HAVE_CRONITER \/ r.cron_expr = NoExpr \/ r.cron_expr = "" THEN None
        ELSE LET nxt_local == croniter_get_next(r.cron_expr, astimezone(base_utc))
             IN  IF nxt_local = None THEN None ELSE to_unix_ts(nxt_local)
    ELSE None

\* an evaluation that returns nothing once r.next_run_ts holds a result
next_unless_cached(r, base_utc) ==
    IF ~r.enabled \/ r.next_run_ts # None THEN None ELSE next_by_kind(r, base_utc)

\* an evaluation that does not look at r.enabled
next_if_enabled_or_not(r, base_utc) == next_by_kind(r, base_utc)

\* Scheduler.compute_next_run(r, base): lines 299-300, then the rule
compute_next_run(r, base_utc) ==
    IF ~r.enabled THEN None ELSE next_by_kind(r, base_utc)

(* -------------------------------- heap -------------------------------- *)

\* the reverse of the order on (ts, id, seq)
TupleMore(a, b) ==
    \/ a[1] > b[1]
    \/ a[1] = b[1] /\ a[2] > b[2]
    \/ a[1] = b[1] /\ a[2] = b[2] /\ a[3] > b[3]

\* Python's tuple order on (ts, id, seq)
TupleLess(a, b) ==
    \/ a[1] < b[1]
    \/ a[1] = b[1] /\ a[2] < b[2]
    \/ a[1] = b[1] /\ a[2] = b[2] /\ a[3] < b[3]

\* self._heap[0]: the least entry
HeapTop(h) == CHOOSE e \in h : \A o \in h : o = e \/ TupleLess(e, o)

\* heapq.heappush
heappush(h, e) == h \cup {e}


\* a pop that leaves the earliest entry in the heap
heappop_kept(h) == h

\* heapq.heappop: the heap without its least entry
heappop(h) == h \ {HeapTop(h)}

\* the entries of heap h for reminder i
EntriesOf(h, i) == {e \in h : e[2] = i}

live == DOMAIN reminders

\* the two threads that write reminders.json: the scheduler thread (line 387)
\* and the Tk thread (Storage.save)
Writers == {"sched", "tk"}

\* the files the data directory can hold at once
Inodes == 1..3

\* a file that open(tmp, "w") has just created or truncated
EmptyFile == [whole |-> FALSE, items |-> <<>>]

\* nothing written, nothing being saved, no fresh Storage loaded
NoSave ==
    /\ dir = [data |-> None, tmp |-> None]
    /\ inodes = [n \in Inodes |-> EmptyFile]
    /\ fh = [w \in Writers |-> None]
    /\ buf = [w \in Writers |-> <<>>]
    /\ prior = [w \in Writers |-> <<>>]
    /\ wpc = [w \in Writers |-> "idle"]
    /\ loaded = <<>>

(* -------------------------------- Init -------------------------------- *)

Init ==
    /\ now = 0
    /\ ticks = 0
    /\ reminders = <<>>
    /\ entries = <<>>
    /\ stop_event = FALSE
    /\ rebuild_event = FALSE
    /\ heap = {}
    /\ seq = 0
    /\ pc = "start"
    /\ fill_ret = "loop"
    /\ fill_i = 0
    /\ fill_used = 0
    /\ now_ts = 0
    /\ wait_sec = 0
    /\ rid = None
    /\ fire_ts = None
    /\ detached = None
    /\ ui_pc = "rebuild"
    /\ stop_returned = FALSE
    /\ pending = 0
    /\ ops = 0
    /\ off_at = [i \in Ids |-> None]
    /\ ui_hist = [i \in Ids |-> "none"]
    /\ fired = <<>>
    /\ cycle_ts = None
    /\ filled_at = None
    /\ created_at = [i \in Ids |-> None]
    /\ NoSave

(* ------------------------------ the clock ------------------------------ *)

\* now_utc() advances at any point of either thread
Tick ==
    /\ UNCHANGED <<file_vars, filled_at, created_at>>
    /\ ticks < MaxTicks
    /\ \E d \in Steps :
          /\ now' = now + d
          /\ wait_sec' = IF wait_sec > d THEN wait_sec - d ELSE 0
    /\ ticks' = ticks + 1
    /\ UNCHANGED <<reminders, entries, stop_event, rebuild_event, pending, ops, fired,
                   detached, heap, seq, pc, fill_ret, fill_i, fill_used, now_ts, rid,
                   fire_ts, cycle_ts>>
    /\ UNCHANGED ui_vars

(* --------------------------- Scheduler._fill_heap ---------------------- *)

\* the positions of entries at or after i that still hold a key of the dict
LivePositions(i) == {j \in i..Len(entries) : entries[j] \in live}

Min(S) == CHOOSE x \in S : \A y \in S : x <= y

\* a fill that keeps what the heap held
heap_keep(h) == h

\* line 334: self._heap.clear()
heap_clear(h) == {}

\* lines 333-336: clear the heap, reset the sequence, read the clock, start
\* iterating self.storage.reminders.values()
FillBegin ==
    /\ UNCHANGED <<file_vars, created_at>>
    /\ filled_at' = now
    /\ pc \in {"start", "fill"}
    /\ heap' = heap_clear(heap)
    /\ seq' = 0
    /\ now_ts' = now
    /\ fill_i' = 1
    /\ fill_used' = Cardinality(live)
    /\ pc' = "fill_it"
    /\ cycle_ts' = None
    /\ UNCHANGED <<now, ticks, reminders, entries, stop_event, rebuild_event,
                   fill_ret, wait_sec, rid, fire_ts, detached, pending, ops, fired>>
    /\ UNCHANGED ui_vars

\* the body of the loop for one reminder, lines 338-342
FillOne(i) ==
    LET r == reminders[i]
        nxt == compute_next_run(r, now)
        push == nxt # None /\ nxt >= now_ts - OneSecond
    IN  /\ reminders' = [reminders EXCEPT ![i].next_run_ts = nxt]
        /\ heap' = IF push THEN heappush(heap, <<nxt, i, seq>>) ELSE heap
        /\ seq' = IF push THEN seq + 1 ELSE seq

\* one next() of the dict iterator and the loop body, lines 337-342
FillStep ==
    /\ UNCHANGED <<file_vars, filled_at, created_at>>
    /\ pc = "fill_it"
    /\ IF Cardinality(live) # fill_used
       THEN \* RuntimeError: dictionary changed size during iteration
            /\ pc' = "crashed"
            /\ UNCHANGED <<reminders, heap, seq, fill_i, fill_used, now_ts>>
       ELSE IF LivePositions(fill_i) = {}
       THEN \* StopIteration: _fill_heap returns
            /\ pc' = fill_ret
            /\ fill_i' = 0
            /\ fill_used' = 0
            /\ now_ts' = 0
            /\ UNCHANGED <<reminders, heap, seq>>
       ELSE LET j == Min(LivePositions(fill_i))
            IN  IF compute_next_run(reminders[entries[j]], now) = Raised
                THEN \* line 338: the exception leaves _fill_heap and run()
                     /\ pc' = "crashed"
                     /\ UNCHANGED <<reminders, heap, seq, fill_i, fill_used, now_ts>>
                ELSE /\ FillOne(entries[j])
                     /\ fill_i' = j + 1
                     /\ UNCHANGED <<pc, fill_used, now_ts>>
    /\ UNCHANGED <<now, ticks, entries, stop_event, rebuild_event, fill_ret,
                   wait_sec, rid, fire_ts, detached, pending, ops, fired, cycle_ts>>
    /\ UNCHANGED ui_vars

(* ----------------------------- Scheduler.run --------------------------- *)

\* line 346: while not self._stop_event.is_set()
LoopTest ==
    /\ UNCHANGED <<file_vars, filled_at, created_at>>
    /\ pc = "loop"
    /\ pc' = IF stop_event THEN "done" ELSE "chk_rebuild"
    /\ UNCHANGED <<now, ticks, reminders, entries, stop_event, rebuild_event,
                   heap, seq, fill_ret, fill_i, fill_used, now_ts, wait_sec, rid,
                   fire_ts, detached, pending, ops, fired, cycle_ts>>
    /\ UNCHANGED ui_vars

\* line 347: if self._rebuild_event.is_set()
RebuildTest ==
    /\ UNCHANGED <<file_vars, filled_at, created_at>>
    /\ pc = "chk_rebuild"
    /\ pc' = IF rebuild_event THEN "clear_top" ELSE "chk_heap"
    /\ UNCHANGED <<now, ticks, reminders, entries, stop_event, rebuild_event,
                   heap, seq, fill_ret, fill_i, fill_used, now_ts, wait_sec, rid,
                   fire_ts, detached, pending, ops, fired, cycle_ts>>
    /\ UNCHANGED ui_vars

\* threading.Event.clear
event_clear(ev) == FALSE

\* lines 348-349 and 358-360: clear the signal, then _fill_heap; after the
\* first the loop goes on to line 350, after the second it continues at 346
ClearSignal ==
    /\ UNCHANGED <<file_vars, filled_at, created_at>>
    /\ pc \in {"clear_top", "clear_wait"}
    /\ rebuild_event' = event_clear(rebuild_event)
    /\ pending' = 0
    /\ fill_ret' = IF pc = "clear_top" THEN "chk_heap" ELSE "loop"
    /\ pc' = "fill"
    /\ UNCHANGED <<now, ticks, reminders, entries, stop_event, heap, seq, fill_i,
                   fill_used, now_ts, wait_sec, rid, fire_ts, detached,
                   ops, fired, cycle_ts>>
    /\ UNCHANGED ui_vars

\* a timeout that is not capped
WaitUncapped(nxt_ts, t) == IF nxt_ts - t > 0 THEN nxt_ts - t ELSE 0

\* line 355: max(0.0, min(3600.0, nxt_ts - now_ts))
WaitSec(nxt_ts, t) ==
    LET d == nxt_ts - t
        capped == IF d < MaxWait THEN d ELSE MaxWait
    IN  IF capped > 0 THEN capped ELSE 0

\* lines 350-355: the empty heap polls; otherwise the wait until the earliest entry
HeapTest ==
    /\ UNCHANGED <<file_vars, filled_at, created_at>>
    /\ pc = "chk_heap"
    /\ IF heap = {}
       THEN /\ pc' = "poll"
            /\ wait_sec' = EmptyPoll
       ELSE /\ pc' = "wait"
            /\ wait_sec' = WaitSec(HeapTop(heap)[1], now)
    /\ UNCHANGED <<now, ticks, reminders, entries, stop_event, rebuild_event,
                   heap, seq, fill_ret, fill_i, fill_used, now_ts, rid, fire_ts,
                   detached, pending, ops, fired, cycle_ts>>
    /\ UNCHANGED ui_vars

\* Event.wait(timeout) times out: its timer has run wait_sec, while the wall
\* clock the loop reads next may lag that timer by up to ClockSkew
TimedOut == wait_sec <= ClockSkew

\* line 351-352: self._rebuild_event.wait(timeout=0.5); continue
Poll ==
    /\ UNCHANGED <<file_vars, filled_at, created_at>>
    /\ pc = "poll"
    /\ rebuild_event \/ TimedOut
    /\ pc' = "loop"
    /\ wait_sec' = 0
    /\ UNCHANGED <<now, ticks, reminders, entries, stop_event, rebuild_event,
                   heap, seq, fill_ret, fill_i, fill_used, now_ts, rid, fire_ts,
                   detached, pending, ops, fired, cycle_ts>>
    /\ UNCHANGED ui_vars

\* a wake that goes to the re-check whatever the signal
woken_to_recheck(signaled) == "recheck"

\* lines 357-361: if signaled: clear, _fill_heap, continue; else the re-check
woken(signaled) == IF signaled THEN "clear_wait" ELSE "recheck"

\* lines 356-357: signaled = self._rebuild_event.wait(timeout=wait_sec)
Wait ==
    /\ UNCHANGED <<file_vars, filled_at, created_at>>
    /\ pc = "wait"
    /\ rebuild_event \/ TimedOut
    /\ pc' = woken(rebuild_event)
    /\ wait_sec' = 0
    /\ UNCHANGED <<now, ticks, reminders, entries, stop_event, rebuild_event,
                   heap, seq, fill_ret, fill_i, fill_used, now_ts, rid, fire_ts,
                   detached, pending, ops, fired, cycle_ts>>
    /\ UNCHANGED ui_vars

\* line 362: the earliest entry is due
Due(h, t) == h # {} /\ HeapTop(h)[1] <= t + Tolerance

\* a check that only looks for the reminder in the dict
DiscardedIfMissing(i) == i \notin live

\* line 365: if not r or not r.enabled
Discarded(i) == i \notin live \/ ~reminders[i].enabled

\* lines 361-366 and 391-392: read the clock; pop the earliest entry if it is
\* due; fetch its reminder; go on to fire it unless it is missing or disabled
Recheck ==
    /\ UNCHANGED <<file_vars, filled_at, created_at>>
    /\ pc = "recheck"
    /\ IF Due(heap, now)
       THEN LET e == HeapTop(heap)
            IN  /\ heap' = heappop(heap)
                /\ IF Discarded(e[2])
                   THEN /\ pc' = "loop"
                        /\ UNCHANGED <<rid, fire_ts, now_ts>>
                   ELSE /\ Len(fired) < MaxFires
                        /\ pc' = "mark"
                        /\ rid' = e[2]
                        /\ fire_ts' = e[1]
                        /\ now_ts' = now
       ELSE /\ pc' = "loop"
            /\ UNCHANGED <<heap, rid, fire_ts, now_ts>>
    /\ UNCHANGED <<now, ticks, reminders, entries, stop_event, rebuild_event,
                   seq, fill_ret, fill_i, fill_used, wait_sec, detached,
                   pending, ops, fired, cycle_ts>>
    /\ UNCHANGED ui_vars

\* the object r: the dict's record while the dict holds it, its last fields after
TheReminder == IF rid \in live THEN reminders[rid] ELSE detached

\* a write to r: to the dict's record, or to the removed object
WriteReminder(r) ==
    IF rid \in live
    THEN reminders' = [reminders EXCEPT ![rid] = r] /\ UNCHANGED detached
    ELSE detached' = r /\ UNCHANGED reminders

\* line 374: r.last_triggered_at = now_ts
Mark ==
    /\ UNCHANGED <<file_vars, filled_at, created_at>>
    /\ pc = "mark"
    /\ WriteReminder([TheReminder EXCEPT !.last_triggered_at = now_ts])
    /\ pc' = "rearm"
    /\ UNCHANGED <<now, ticks, entries, stop_event, rebuild_event, heap, seq,
                   fill_ret, fill_i, fill_used, now_ts, wait_sec, rid, fire_ts, pending, ops, fired, cycle_ts>>
    /\ UNCHANGED ui_vars

\* a consumption that leaves the reminder enabled
consume_keep_enabled(r) == [r EXCEPT !.next_run_ts = None]

\* a consumption that also drops the rule of the reminder
consume_and_forget(r) ==
    [r EXCEPT !.next_run_ts = None, !.enabled = FALSE, !.delay_minutes = None,
              !.run_at_ts = None]

\* lines 384-385: r.next_run_ts = None; r.enabled = False
consume(r) == [r EXCEPT !.next_run_ts = None, !.enabled = FALSE]

\* lines 375-385: a cron reminder is re-armed from now_utc(); any other is consumed
Rearm ==
    /\ UNCHANGED <<file_vars, filled_at, created_at>>
    /\ pc = "rearm"
    /\ LET r == TheReminder
       IN  IF r.kind = "cron"
           THEN LET nxt == compute_next_run(r, now)
                IN  /\ WriteReminder([r EXCEPT !.next_run_ts = nxt])
                    /\ heap' = IF nxt # None THEN heappush(heap, <<nxt, rid, seq>>) ELSE heap
                    /\ seq' = IF nxt # None THEN seq + 1 ELSE seq
           ELSE /\ WriteReminder(consume(r))
                /\ UNCHANGED <<heap, seq>>
    /\ pc' = "deliver"
    /\ UNCHANGED <<now, ticks, entries, stop_event, rebuild_event, fill_ret,
                   fill_i, fill_used, now_ts, wait_sec, rid, fire_ts,
                   pending, ops, fired, cycle_ts>>
    /\ UNCHANGED ui_vars

\* a snapshot write whose failure ends run()
snapshot_uncaught == "crashed"

\* lines 388-389: except Exception: pass
snapshot_except == "write_failed"

\* a callback whose exception ends run()
callback_uncaught == "crashed"

\* lines 371-372: except Exception as e: logging.exception(...)
callback_except == "caught"

\* line 390 and lines 368-372: after_fire(r) calls self.on_fire_callback(rem),
\* which returns or raises
after_fire(raises) ==
    /\ fired' = Append(fired, [id |-> rid, ts |-> fire_ts, kind |-> TheReminder.kind,
                                enabled |-> TheReminder.enabled,
                                off_at |-> off_at[rid],
                                stopped |-> stop_returned])
    /\ pc' = IF raises THEN callback_except ELSE "loop"
    /\ rid' = None
    /\ fire_ts' = None
    /\ now_ts' = 0
    /\ detached' = None
    /\ cycle_ts' = fire_ts

\* lines 386-390: the snapshot write, which succeeds or raises; after a
\* successful write, after_fire(r)
Deliver ==
    /\ UNCHANGED <<file_vars, filled_at, created_at>>
    /\ pc = "deliver"
    /\ \E wrote \in BOOLEAN :
          IF wrote
          THEN \E raises \in BOOLEAN : after_fire(raises)
          ELSE /\ pc' = snapshot_except
               /\ UNCHANGED <<fired, rid, fire_ts, now_ts, detached, cycle_ts>>
    /\ UNCHANGED <<now, ticks, reminders, entries, stop_event, rebuild_event,
                   heap, seq, fill_ret, fill_i, fill_used, wait_sec, pending, ops>>
    /\ UNCHANGED ui_vars

\* lines 388-390: the failed write is passed over, then after_fire(r)
WriteFailed ==
    /\ UNCHANGED <<file_vars, filled_at, created_at>>
    /\ pc = "write_failed"
    /\ \E raises \in BOOLEAN : after_fire(raises)
    /\ UNCHANGED <<now, ticks, reminders, entries, stop_event, rebuild_event,
                   heap, seq, fill_ret, fill_i, fill_used, wait_sec, pending, ops>>
    /\ UNCHANGED ui_vars

\* lines 371-372 and 346: the callback's exception is logged; the loop goes on
Caught ==
    /\ UNCHANGED <<file_vars, filled_at, created_at>>
    /\ pc = "caught"
    /\ pc' = "loop"
    /\ UNCHANGED <<now, ticks, reminders, entries, stop_event, rebuild_event,
                   heap, seq, fill_ret, fill_i, fill_used, now_ts, wait_sec, rid,
                   fire_ts, detached, pending, ops, fired, cycle_ts>>
    /\ UNCHANGED ui_vars

(* ------------------------- the presentation layer ---------------------- *)

\* the ids already drawn: uuid4 never repeats
Drawn == {entries[j] : j \in 1..Len(entries)}

\* what the create form builds, lines 1236-1282, next_run_ts included
NewReminders ==
    LET fresh == {Reminder("delay", m, None, NoExpr) : m \in DelayChoices}
                 \cup {Reminder("datetime", None, t, NoExpr) : t \in RunAtChoices}
                 \cup {Reminder("cron", None, None, c) : c \in CronChoices}
    IN  {[r EXCEPT !.next_run_ts = compute_next_run(r, now)] : r \in fresh}

\* the scheduler thread holds reminder i as r (lines 364-390)
Firing(i) == pc \in {"mark", "rearm", "deliver", "write_failed"} /\ rid = i

Later(h, what) == IF h = "edited" THEN h ELSE what

\* a handler runs on the idle Tk thread
Handler ==
    /\ ui_pc = "idle"
    /\ ops < MaxOps
    /\ ops' = ops + 1

\* App.save_new_reminder, lines 1222-1285 (the rebuild() of line 1286 follows)
UiCreate ==
    /\ UNCHANGED <<file_vars, filled_at>>
    /\ Handler
    /\ \E i \in Ids \ Drawn, r \in NewReminders :
          /\ reminders' = [j \in live \cup {i} |-> IF j = i THEN r ELSE reminders[j]]
          /\ entries' = Append(entries, i)
          /\ created_at' = [created_at EXCEPT ![i] = now]
    /\ ui_pc' = "rebuild"
    /\ UNCHANGED <<now, ticks, stop_event, rebuild_event, detached, pending, fired,
                   stop_returned, ui_hist, off_at, cycle_ts>>
    /\ UNCHANGED sched_vars

\* lines 1335, 1524: r.next_run_ts = self.scheduler.compute_next_run(r); an
\* exception leaves the handler there, before its save() and rebuild()
Assigned(r) ==
    LET nxt == compute_next_run(r, now)
    IN  IF nxt = Raised THEN r ELSE [r EXCEPT !.next_run_ts = nxt]

Completed(r) == compute_next_run(r, now) # Raised

\* App._enable_selected, lines 1329-1337
UiEnable ==
    /\ UNCHANGED <<file_vars, filled_at, created_at>>
    /\ Handler
    /\ \E i \in live :
          LET r == [reminders[i] EXCEPT !.enabled = TRUE]
          IN  /\ reminders' = [reminders EXCEPT ![i] = Assigned(r)]
              /\ off_at' = [off_at EXCEPT ![i] = None]
              /\ ui_hist' = [ui_hist EXCEPT ![i] = Later(@, "enabled")]
              /\ ui_pc' = IF Completed(r) THEN "rebuild" ELSE "idle"
    /\ UNCHANGED <<now, ticks, entries, stop_event, rebuild_event, detached, pending,
                   fired, stop_returned, cycle_ts>>
    /\ UNCHANGED sched_vars

\* App._disable_selected, lines 1341-1349
UiDisable ==
    /\ UNCHANGED <<file_vars, filled_at, created_at>>
    /\ Handler
    /\ \E i \in live :
          /\ reminders' = [reminders EXCEPT ![i].enabled = FALSE, ![i].next_run_ts = None]
          /\ off_at' = [off_at EXCEPT ![i] = now]
    /\ ui_pc' = "rebuild"
    /\ UNCHANGED <<now, ticks, entries, stop_event, rebuild_event, detached, pending,
                   fired, stop_returned, ui_hist, cycle_ts>>
    /\ UNCHANGED sched_vars

\* App._delete_selected, lines 1353-1358: the dict drops the key; the object
\* lives on while the scheduler thread holds it
UiDelete ==
    /\ UNCHANGED <<file_vars, filled_at, created_at>>
    /\ Handler
    /\ \E i \in live :
          /\ reminders' = [j \in live \ {i} |-> reminders[j]]
          /\ detached' = IF Firing(i) THEN reminders[i] ELSE detached
    /\ ui_pc' = "rebuild"
    /\ UNCHANGED <<now, ticks, entries, stop_event, rebuild_event, pending, fired,
                   stop_returned, ui_hist, off_at, cycle_ts>>
    /\ UNCHANGED sched_vars

\* the rules the edit form accepts: any positive number of minutes (line 1495)
Rules ==
    {[kind |-> "delay", delay_minutes |-> m, run_at_ts |-> None, cron_expr |-> NoExpr] :
        m \in DelayChoices \cup {TooMany}}
    \cup {[kind |-> "datetime", delay_minutes |-> None, run_at_ts |-> t, cron_expr |-> NoExpr] :
        t \in RunAtChoices}
    \cup {[kind |-> "cron", delay_minutes |-> None, run_at_ts |-> None, cron_expr |-> c] :
        c \in CronChoices}

\* save_edit with valid input, lines 1484-1525
UiEdit ==
    /\ UNCHANGED <<file_vars, filled_at, created_at>>
    /\ Handler
    /\ \E i \in live, e \in Rules :
          LET r == [reminders[i] EXCEPT !.kind = e.kind,
                                        !.last_triggered_at = None,
                                        !.enabled = TRUE,
                                        !.delay_minutes = e.delay_minutes,
                                        !.run_at_ts = e.run_at_ts,
                                        !.cron_expr = e.cron_expr]
          IN  /\ reminders' = [reminders EXCEPT ![i] = Assigned(r)]
              /\ off_at' = [off_at EXCEPT ![i] = None]
              /\ ui_hist' = [ui_hist EXCEPT ![i] = "edited"]
              /\ ui_pc' = IF Completed(r) THEN "rebuild" ELSE "idle"
    /\ UNCHANGED <<now, ticks, entries, stop_event, rebuild_event, detached, pending,
                   fired, stop_returned, cycle_ts>>
    /\ UNCHANGED sched_vars

\* save_edit with input it rejects: lines 1488-1492 have run, then the error
\* box is shown (lines 1496, 1504, 1511, 1517)
UiEditRejected ==
    /\ UNCHANGED <<file_vars, filled_at, created_at>>
    /\ Handler
    /\ \E i \in live, k \in {"delay", "datetime", "cron"} :
          /\ reminders' = [reminders EXCEPT ![i].kind = k,
                                            ![i].last_triggered_at = None,
                                            ![i].enabled = TRUE]
          /\ off_at' = [off_at EXCEPT ![i] = None]
          /\ ui_hist' = [ui_hist EXCEPT ![i] = "edited"]
    /\ ui_pc' = "error_box"
    /\ UNCHANGED <<now, ticks, entries, stop_event, rebuild_event, detached, pending,
                   fired, stop_returned, cycle_ts>>
    /\ UNCHANGED sched_vars

\* the error box is closed and save_edit returns (lines 1497, 1505, 1512,
\* 1518) without save() or rebuild()
UiDismiss ==
    /\ UNCHANGED <<file_vars, filled_at, created_at>>
    /\ ui_pc = "error_box"
    /\ ui_pc' = "idle"
    /\ UNCHANGED <<now, ticks, reminders, entries, stop_event, rebuild_event, detached,
                   pending, ops, fired, stop_returned, ui_hist, off_at, cycle_ts>>
    /\ UNCHANGED sched_vars


\* a set() that leaves the event as it is
event_left(ev) == ev

\* threading.Event.set
event_set(ev) == TRUE

\* Scheduler.rebuild, lines 294-295: called at the end of a handler, and by
\* App.__init__ (line 856) right after the thread was started
UiRebuild ==
    /\ UNCHANGED <<file_vars, filled_at, created_at>>
    /\ ui_pc \in {"rebuild", "quit"}
    /\ rebuild_event' = event_set(rebuild_event)
    /\ pending' = IF pending < 2 THEN pending + 1 ELSE pending
    /\ ui_pc' = IF ui_pc = "quit" THEN "quit" ELSE "idle"
    /\ UNCHANGED <<now, ticks, reminders, entries, stop_event, detached, fired,
                   stop_returned, ui_hist, off_at, ops, cycle_ts>>
    /\ UNCHANGED sched_vars

\* Scheduler.stop, line 291: self._stop_event.set()
UiStopSet ==
    /\ UNCHANGED <<file_vars, filled_at, created_at>>
    /\ ui_pc \in {"idle", "quit"}
    /\ ops < MaxOps
    /\ ops' = ops + 1
    /\ stop_event' = event_set(stop_event)
    /\ ui_pc' = "stopping"
    /\ UNCHANGED <<now, ticks, reminders, entries, rebuild_event, detached, pending,
                   fired, stop_returned, ui_hist, off_at, cycle_ts>>
    /\ UNCHANGED sched_vars

\* Scheduler.stop, line 292: self._rebuild_event.set(), and stop() returns
UiStopSignal ==
    /\ UNCHANGED <<file_vars, filled_at, created_at>>
    /\ ui_pc = "stopping"
    /\ rebuild_event' = event_set(rebuild_event)
    /\ stop_returned' = TRUE
    /\ ui_pc' = "quit"
    /\ UNCHANGED <<now, ticks, reminders, entries, stop_event, detached, pending, ops,
                   fired, ui_hist, off_at, cycle_ts>>
    /\ UNCHANGED sched_vars

(* ---------------------------- specification ---------------------------- *)

Next ==
    \/ Tick
    \/ FillBegin
    \/ FillStep
    \/ LoopTest
    \/ RebuildTest
    \/ ClearSignal
    \/ HeapTest
    \/ Poll
    \/ Wait
    \/ Recheck
    \/ Mark
    \/ Rearm
    \/ Deliver
    \/ WriteFailed
    \/ Caught
    \/ UiCreate
    \/ UiEnable
    \/ UiDisable
    \/ UiDelete
    \/ UiEdit
    \/ UiEditRejected
    \/ UiDismiss
    \/ UiRebuild
    \/ UiStopSet
    \/ UiStopSignal

Spec == Init /\ [][Next]_vars

\* the steps of the scheduler thread, Scheduler.run and _fill_heap
SchedulerStep ==
    \/ FillBegin
    \/ FillStep
    \/ LoopTest
    \/ RebuildTest
    \/ ClearSignal
    \/ HeapTest
    \/ Poll
    \/ Wait
    \/ Recheck
    \/ Mark
    \/ Rearm
    \/ Deliver
    \/ WriteFailed
    \/ Caught

\* the daemon thread started at line 784 keeps running while it can take a
\* step, and a handler that has reached its rebuild() call makes it
SpecLive == Init /\ [][Next]_vars /\ WF_vars(SchedulerStep) /\ WF_vars(UiRebuild)

(* ------------------- compute_next_run on its own ----------------------- *)

\* the reminders and base times compute_next_run is applied to
EvalKinds == {"delay", "datetime", "cron"}
EvalDelays == {None, 0 - 3, 0, 1, 2, TooMany}
EvalRunAts == {None, 0, Minute, 2 * Minute}
EvalLasts == {None, Minute - 1, Minute}
EvalCrons == {NoExpr, "", "* * * * *", "*/5 * * * *", "61 * * * *"}
EvalBases == {0, 1, Minute - 1, Minute, Minute + 1, 5 * Minute}

EvalReminders ==
    [kind : EvalKinds, delay_minutes : EvalDelays, run_at_ts : EvalRunAts,
     cron_expr : EvalCrons, enabled : BOOLEAN, last_triggered_at : EvalLasts,
     next_run_ts : {None}]

\* one stored reminder, of any field values, and a clock reading
EvalInit ==
    /\ now \in EvalBases
    /\ \E r \in EvalReminders : reminders = [i \in {1} |-> r]
    /\ entries = <<1>>
    /\ pc = "eval"
    /\ ticks = 0
    /\ stop_event = FALSE
    /\ rebuild_event = FALSE
    /\ heap = {}
    /\ seq = 0
    /\ fill_ret = "loop"
    /\ fill_i = 0
    /\ fill_used = 0
    /\ now_ts = 0
    /\ wait_sec = 0
    /\ rid = None
    /\ fire_ts = None
    /\ detached = None
    /\ ui_pc = "idle"
    /\ stop_returned = FALSE
    /\ pending = 0
    /\ ops = 0
    /\ off_at = [i \in Ids |-> None]
    /\ ui_hist = [i \in Ids |-> "none"]
    /\ fired = <<>>
    /\ cycle_ts = None
    /\ filled_at = None
    /\ created_at = [i \in Ids |-> None]
    /\ NoSave

\* r.next_run_ts = self.scheduler.compute_next_run(r), with base = now_utc()
Eval ==
    /\ UNCHANGED <<file_vars, filled_at, created_at>>
    /\ pc = "eval"
    /\ reminders' = [reminders EXCEPT ![1] = Assigned(@)]
    /\ pc' = IF Completed(reminders[1]) THEN "evaluated" ELSE "raised"
    /\ UNCHANGED <<now, ticks, entries, stop_event, rebuild_event, heap, seq,
                   fill_ret, fill_i, fill_used, now_ts, wait_sec, rid, fire_ts,
                   detached, pending, ops, fired, cycle_ts>>
    /\ UNCHANGED ui_vars

SpecEval == EvalInit /\ [][Eval]_vars

(* -------------------------------- claims ------------------------------- *)

Calls == 1..Len(fired)

\* C1: the callback is invoked at most once per occurrence: a reminder the
\* presentation layer neither re-enabled nor edited is never delivered twice
\* for the same occurrence timestamp, and not twice at all when it is one-shot
C1_OncePerOccurrence ==
    \A j \in Calls, k \in Calls :
        (j < k /\ fired[j].id = fired[k].id /\ ui_hist[fired[j].id] = "none")
            => (fired[j].kind = "cron" /\ fired[j].ts # fired[k].ts)

\* C2: no reminder fires after stop() returns control: no callback invocation
\* happens once stop() has returned
C2_NoFireAfterStop == \A k \in Calls : ~fired[k].stopped

\* C3: after stop() the loop does not sit out the remaining deadline sleep:
\* it is never blocked in the deadline wait, the rebuild signal cleared, once
\* stop() has returned
C3_StopUnblocksWait ==
    ~(stop_returned /\ pc = "wait" /\ ~rebuild_event /\ ~TimedOut)

\* C4: a mutation followed by rebuild() is reflected in the next heap fill:
\* while the loop is not stopped, a pending rebuild signal always finds the
\* scheduler thread alive to serve it
C4_SignalNeverLost == (rebuild_event /\ ~stop_event) => pc # "crashed"

\* the user disabled the reminder of call k, and left it so, before instant t
OffBefore(k, t) == fired[k].off_at # None /\ fired[k].off_at < t

\* C5 as claimed: a reminder disabled before its due time is never delivered
\* to the callback
C5_DisabledNeverDelivered == \A k \in Calls : ~OffBefore(k, fired[k].ts)

\* C5: a popped entry whose reminder is missing or disabled is discarded with
\* no callback and no change to any reminder; a reminder disabled more than
\* the firing tolerance before its due time is never delivered to the callback
C5_DiscardedOrTolerance ==
    /\ [](\A k \in Calls : ~OffBefore(k, fired[k].ts - Tolerance))
    /\ [][(/\ pc = "recheck"
           /\ pc' # pc
           /\ Due(heap, now)
           /\ Discarded(HeapTop(heap)[2]))
             => (/\ pc' = "loop"
                 /\ heap' = heappop(heap)
                 /\ fired' = fired
                 /\ reminders' = reminders)]_vars

C5_Witness ==
    /\ pc = "recheck"
    /\ Due(heap, now)
    /\ LET i == HeapTop(heap)[2]
       IN  /\ i \in live
           /\ ~reminders[i].enabled
           /\ off_at[i] # None
           /\ off_at[i] + Tolerance < HeapTop(heap)[1]

\* C6: a delay reminder's deadline is fixed when it is created: a heap fill
\* leaves the next_run_ts of a pending delay reminder as it was
C6_DelayDeadlineFixed ==
    [][\A i \in live :
          (/\ pc = "fill_it"
           /\ Cardinality(live) > 1
           /\ i \in DOMAIN reminders'
           /\ reminders[i].kind = "delay"
           /\ reminders[i].enabled
           /\ reminders[i].next_run_ts # None
           /\ reminders'[i].next_run_ts # None)
             => reminders'[i].next_run_ts = reminders[i].next_run_ts]_vars

C8_CronRearmed ==
    [][(/\ pc = "rearm"
        /\ pc' = "deliver"
        /\ rid \in live
        /\ reminders'[rid].kind = "cron")
          => (/\ reminders'[rid].enabled
              /\ reminders'[rid].next_run_ts > now_ts
              /\ EntriesOf(heap', rid) = {<<reminders'[rid].next_run_ts, rid, seq>>})]_vars

\* C9: a datetime reminder that is not edited is delivered at most once,
\* whatever firings, disables, enables and rebuilds happen
C9_DatetimeFiresOnce ==
    \A j \in Calls, k \in Calls :
        (/\ j < k
         /\ fired[j].id = fired[k].id
         /\ fired[j].kind = "datetime"
         /\ fired[k].kind = "datetime")
           => ui_hist[fired[j].id] = "edited"

\* C10: rebuild() is idempotent: a call made while the signal is pending
\* changes neither the signal, the heap nor the store; one clear consumes
\* every pending call; and the heap never holds two entries for one reminder
C10_RebuildIdempotent ==
    /\ [](\A i \in Ids : Cardinality(EntriesOf(heap, i)) <= 1)
    /\ [][(ui_pc = "rebuild" /\ ui_pc' # ui_pc /\ rebuild_event)
            => (/\ rebuild_event'
                /\ UNCHANGED <<heap, seq, reminders, pc, fired, stop_event>>)]_vars
    /\ [][(pc \in {"clear_top", "clear_wait"} /\ pc' = "fill")
            => (~rebuild_event' /\ pending' = 0)]_vars

C10_Witness ==
    /\ pc \in {"clear_top", "clear_wait"}
    /\ pending = 2
    /\ heap # {}

\* C11: a heap fill starts from an empty heap, and a reminder that is and
\* stays disabled, once the heap holds no entry for it, gets none: after the
\* first fill that follows its disablement the heap has no entry for it until
\* it is enabled again
C11_DisabledLeavesHeap ==
    /\ [][(pc \in {"start", "fill"} /\ pc' = "fill_it") => heap' = {}]_vars
    /\ [][\A i \in live :
            (/\ i \in DOMAIN reminders'
             /\ ~reminders[i].enabled
             /\ ~reminders'[i].enabled
             /\ EntriesOf(heap, i) = {})
               => EntriesOf(heap', i) = {}]_vars

C11_Witness ==
    /\ pc = "fill_it"
    /\ fill_i > 1
    /\ \E i \in live :
          /\ ~reminders[i].enabled
          /\ off_at[i] # None
          /\ off_at[i] < now_ts
          /\ reminders[i].kind = "cron"
          /\ entries[fill_i - 1] = i
          /\ EntriesOf(heap, i) = {}

\* C12: among the heap entries with the same due timestamp the one inserted
\* first is popped first: the entry the firing step is about to pop has the
\* smallest sequence number of the entries that share its timestamp
C12_EarlierInsertedFirst ==
    (pc = "recheck" /\ Due(heap, now))
        => \A e \in heap :
              e[1] = HeapTop(heap)[1] => HeapTop(heap)[3] <= e[3]

\* C13: within one fill cycle the due timestamps of the entries delivered to
\* the callback never decrease: the entry about to be delivered is not earlier
\* than the one delivered before it since the latest _fill_heap, re-pushed
\* cron entries included
C13_CycleOrder ==
    (pc = "deliver" /\ cycle_ts # None) => cycle_ts <= fire_ts

C13_Witness ==
    /\ pc = "deliver"
    /\ cycle_ts # None
    /\ cycle_ts < fire_ts
    /\ TheReminder.kind = "cron"

\* C14: an evaluator exception for one reminder during a heap fill is caught:
\* when _fill_heap reaches a reminder whose evaluation raises, the fill goes
\* on, that reminder gets no next occurrence and no heap entry
C14_EvaluatorCaught ==
    [][(/\ pc = "fill_it"
        /\ (pc' # pc \/ fill_i' # fill_i)
        /\ Cardinality(live) = fill_used
        /\ LivePositions(fill_i) # {}
        /\ compute_next_run(reminders[entries[Min(LivePositions(fill_i))]], now) = Raised)
          => LET i == entries[Min(LivePositions(fill_i))]
             IN  /\ pc' = "fill_it"
                 /\ reminders'[i].next_run_ts = None
                 /\ EntriesOf(heap', i) = {}]_vars

\* C15: a callback that raises does not end the loop: the firing never leaves
\* run(), the exception is caught, and the loop goes on to its test with the
\* bookkeeping of the firing, the heap and the log of calls as they were
C15_CallbackErrorCaught ==
    /\ [][(pc \in {"deliver", "write_failed"} /\ Len(fired') > Len(fired))
            => pc' \in {"loop", "caught"}]_vars
    /\ [][(pc = "caught" /\ pc' # pc)
            => (pc' = "loop" /\ UNCHANGED <<reminders, heap, seq, fired>>)]_vars

C15_Witness ==
    /\ pc = "caught"
    /\ Len(fired) = 1
    /\ fired[1].kind = "cron"
    /\ EntriesOf(heap, fired[1].id) # {}
    /\ reminders[fired[1].id].last_triggered_at # None

\* C16: a snapshot write that fails during a firing is swallowed: the write
\* step never leaves run(), and after a failed write the callback is invoked
\* for that reminder, the store keeps the firing's updates, the loop goes on
C16_SnapshotFailureSwallowed ==
    /\ [][(pc = "deliver" /\ pc' # pc)
            => pc' \in {"write_failed", "loop", "caught"}]_vars
    /\ [][(pc = "write_failed" /\ pc' # pc)
            => (/\ Len(fired') = Len(fired) + 1
                /\ fired'[Len(fired')].id = rid
                /\ reminders' = reminders
                /\ pc' \in {"loop", "caught"})]_vars

C16_Witness ==
    /\ pc = "write_failed"
    /\ rid \in live
    /\ reminders[rid].last_triggered_at = now_ts
    /\ reminders[rid].kind = "delay"
    /\ ~reminders[rid].enabled
    /\ reminders[rid].next_run_ts = None

\* C17: an edit rejected for invalid input never reaches the store: when
\* save_edit shows its error box, every stored reminder is as it was
C17_RejectedEditNoChange ==
    [][(ui_pc = "idle" /\ ui_pc' = "error_box") => reminders' = reminders]_vars

\* C18: every stored reminder has the rule field of its kind set and the
\* other two rule fields cleared
C18_OneRulePerKind ==
    \A i \in live :
        LET r == reminders[i]
        IN  /\ (r.delay_minutes # None) <=> (r.kind = "delay")
            /\ (r.run_at_ts # None) <=> (r.kind = "datetime")
            /\ (r.cron_expr # NoExpr) <=> (r.kind = "cron")

\* C19: the firing step's check of a reminder and its writes to it exclude the
\* presentation thread: while the scheduler thread is between the check and
\* the end of its writes, no other step changes that reminder
C19_FiringExcludesMutation ==
    [][(/\ pc \in {"mark", "rearm"}
        /\ pc' = pc
        /\ rid \in live
        /\ rid \in DOMAIN reminders')
          => reminders'[rid] = reminders[rid]]_vars

\* C20: for an enabled delay reminder with delay_minutes = m > 0 and any base,
\* compute_next_run returns exactly base + m minutes; for m <= 0 or
\* delay_minutes unset it returns None
C20_DelayNext ==
    (pc # "eval" /\ reminders[1].enabled /\ reminders[1].kind = "delay")
        => LET m == reminders[1].delay_minutes
               nxt == reminders[1].next_run_ts
           IN  /\ pc = "evaluated"
               /\ IF m = None \/ m <= 0
                  THEN nxt = None
                  ELSE /\ nxt # None
                       /\ (nxt - now) % Minute = 0
                       /\ (nxt - now) \div Minute = m

\* ---------------------------------------------------------------------
\* The scheduler thread alone, with deadlines nearer and farther than the
\* longest wait

\* the datetime reminders the store holds when the thread starts
WaitRunAts == {Minute, MaxWait + Minute}

WaitInit ==
    /\ now = 0
    /\ ticks = 0
    /\ \E t \in WaitRunAts :
          reminders = [i \in {1} |-> Reminder("datetime", None, t, NoExpr)]
    /\ entries = <<1>>
    /\ stop_event = FALSE
    /\ rebuild_event \in BOOLEAN
    /\ heap = {}
    /\ seq = 0
    /\ pc = "start"
    /\ fill_ret = "loop"
    /\ fill_i = 0
    /\ fill_used = 0
    /\ now_ts = 0
    /\ wait_sec = 0
    /\ rid = None
    /\ fire_ts = None
    /\ detached = None
    /\ ui_pc = "idle"
    /\ stop_returned = FALSE
    /\ pending = 0
    /\ ops = 0
    /\ off_at = [i \in Ids |-> None]
    /\ ui_hist = [i \in Ids |-> "none"]
    /\ fired = <<>>
    /\ cycle_ts = None
    /\ filled_at = None
    /\ created_at = [i \in Ids |-> IF i = 1 THEN 0 ELSE None]
    /\ NoSave

\* the clock advances by the longest wait
LongTick ==
    /\ UNCHANGED <<file_vars, filled_at, created_at>>
    /\ ticks < MaxTicks
    /\ now' = now + MaxWait
    /\ wait_sec' = IF wait_sec > MaxWait THEN wait_sec - MaxWait ELSE 0
    /\ ticks' = ticks + 1
    /\ UNCHANGED <<reminders, entries, stop_event, rebuild_event, pending, ops, fired,
                   detached, heap, seq, pc, fill_ret, fill_i, fill_used, now_ts, rid,
                   fire_ts, cycle_ts>>
    /\ UNCHANGED ui_vars

WaitNext ==
    \/ Tick
    \/ LongTick
    \/ FillBegin
    \/ FillStep
    \/ LoopTest
    \/ RebuildTest
    \/ ClearSignal
    \/ HeapTest
    \/ Poll
    \/ Wait
    \/ Recheck
    \/ Mark
    \/ Rearm
    \/ Deliver
    \/ WriteFailed
    \/ Caught

SpecWait == WaitInit /\ [][WaitNext]_vars

\* ---------------------------------------------------------------------
\* Storage: reminders.json, written by atomic_write_json, read by load()

\* json.dump / json.load of an Optional number: None is null
json_dumps(v) == IF v = None THEN <<>> ELSE <<v>>
json_loads(j) == IF j = <<>> THEN None ELSE j[1]

\* json.dump / json.load of the Optional string cron_expr
json_dumps_str(v) == IF v = NoExpr THEN <<>> ELSE <<v>>
json_loads_str(j) == IF j = <<>> THEN NoExpr ELSE j[1]

\* lines 212-213 and json.dump: asdict(self) as a JSON object; ok says that
\* the object's keys are the fields of Reminder
to_dict(i, r) ==
    [ok |-> TRUE, id |-> i, kind |-> r.kind,
     delay_minutes |-> json_dumps(r.delay_minutes),
     run_at_ts |-> json_dumps(r.run_at_ts),
     cron_expr |-> json_dumps_str(r.cron_expr),
     enabled |-> r.enabled,
     last_triggered_at |-> json_dumps(r.last_triggered_at),
     next_run_ts |-> json_dumps(r.next_run_ts)]

\* a reading that leaves next_run_ts to the scheduler
from_dict_unscheduled(d) ==
    [kind |-> d.kind,
     delay_minutes |-> json_loads(d.delay_minutes),
     run_at_ts |-> json_loads(d.run_at_ts),
     cron_expr |-> json_loads_str(d.cron_expr),
     enabled |-> d.enabled,
     last_triggered_at |-> json_loads(d.last_triggered_at),
     next_run_ts |-> None]

\* lines 215-217 and json.load: Reminder(**d)
from_dict(d) ==
    [kind |-> d.kind,
     delay_minutes |-> json_loads(d.delay_minutes),
     run_at_ts |-> json_loads(d.run_at_ts),
     cron_expr |-> json_loads_str(d.cron_expr),
     enabled |-> d.enabled,
     last_triggered_at |-> json_loads(d.last_triggered_at),
     next_run_ts |-> json_loads(d.next_run_ts)]

\* lines 269, 387: [r.to_dict() for r in self.reminders.values()]
snapshot(store, order) ==
    LET ids == SelectSeq(order, LAMBDA i : i \in DOMAIN store)
    IN  [k \in 1..Len(ids) |-> to_dict(ids[k], store[ids[k]])]

\* lines 254-256: the records the loop inserts before from_dict raises
Accepted(items) ==
    LET bad == {k \in 1..Len(items) : ~items[k].ok}
    IN  IF bad = {} THEN Len(items) ELSE Min(bad) - 1

\* lines 249-258: Storage.load on a fresh Storage; a missing file is skipped,
\* json.load raises on a file that is not whole, from_dict raises on a record
\* that is not ok, and the except clause keeps what was inserted before
load(files, nodes) ==
    IF files.data = None THEN <<>>
    ELSE LET c == nodes[files.data] IN
         IF ~c.whole THEN <<>>
         ELSE LET n == Accepted(c.items)
                  at(i) == CHOOSE k \in 1..n :
                              /\ c.items[k].id = i
                              /\ \A j \in (k + 1)..n : c.items[j].id # i
              IN  [i \in {c.items[k].id : k \in 1..n} |-> from_dict(c.items[at(i)])]

\* f.write through a handle whose offset is from: items from+1..to of data
\* land on the file c; the result is whole when the handle has written the
\* end of data, c had no hole before the offset and nothing of c remains
\* behind the end
written(c, data, from, to) ==
    LET have == Len(c.items)
        n == IF have > to THEN have ELSE to
    IN  [whole |-> to = Len(data) /\ from <= have /\ have <= to,
         items |-> [k \in 1..n |->
                      IF k <= from /\ k <= have THEN c.items[k]
                      ELSE IF k <= to THEN data[k]
                      ELSE c.items[k]]]

\* the durable file: <<content of reminders.json>>, <<>> when it is missing
Durable == IF dir.data = None THEN <<>> ELSE <<inodes[dir.data]>>

\* the complete snapshot writer w was called with
New(w) == <<[whole |-> TRUE, items |-> buf[w]]>>

\* a file not in the directory and not open
FreeInode ==
    CHOOSE n \in Inodes : n \notin {dir.data, dir.tmp} \cup {fh[w] : w \in Writers}

engine_vars == <<now, ticks, entries, stop_event, rebuild_event, heap, seq, pc,
                 fill_ret, fill_i, fill_used, now_ts, wait_sec, rid, fire_ts,
                 detached, ui_pc, stop_returned, pending, ops, off_at, ui_hist,
                 fired, cycle_ts, filled_at, created_at>>

\* lines 1346-1347: the handler's change that precedes its storage.save()
StoreDisable ==
    /\ wpc["tk"] = "idle"
    /\ \E i \in live :
          /\ reminders[i].enabled
          /\ reminders' = [reminders EXCEPT ![i].enabled = FALSE, ![i].next_run_ts = None]
    /\ UNCHANGED engine_vars
    /\ UNCHANGED file_vars

\* lines 269, 387: the list is built, then atomic_write_json is called
SaveBegin(w) ==
    /\ wpc[w] = "idle"
    /\ buf' = [buf EXCEPT ![w] = snapshot(reminders, entries)]
    /\ prior' = [prior EXCEPT ![w] = Durable]
    /\ wpc' = [wpc EXCEPT ![w] = "open"]
    /\ UNCHANGED <<reminders, dir, inodes, fh, loaded>>
    /\ UNCHANGED engine_vars

\* line 168: open(tmp, "w") creates reminders.json.tmp or truncates the file
\* of that name, or raises
TmpOpen(w) ==
    /\ wpc[w] = "open"
    /\ \/ /\ dir.tmp = None
          /\ dir' = [dir EXCEPT !.tmp = FreeInode]
          /\ inodes' = [inodes EXCEPT ![FreeInode] = EmptyFile]
          /\ fh' = [fh EXCEPT ![w] = FreeInode]
          /\ wpc' = [wpc EXCEPT ![w] = "dump"]
       \/ /\ dir.tmp # None
          /\ inodes' = [inodes EXCEPT ![dir.tmp] = EmptyFile]
          /\ fh' = [fh EXCEPT ![w] = dir.tmp]
          /\ wpc' = [wpc EXCEPT ![w] = "dump"]
          /\ UNCHANGED dir
       \/ /\ wpc' = [wpc EXCEPT ![w] = "raised"]
          /\ UNCHANGED <<dir, inodes, fh>>
    /\ UNCHANGED <<reminders, buf, prior, loaded>>
    /\ UNCHANGED engine_vars

\* line 169: json.dump has written all but the last record so far
DumpSome(w) ==
    /\ wpc[w] = "dump"
    /\ Len(buf[w]) >= 1
    /\ inodes' = [inodes EXCEPT ![fh[w]] = written(@, buf[w], 0, Len(buf[w]) - 1)]
    /\ wpc' = [wpc EXCEPT ![w] = "dump_rest"]
    /\ UNCHANGED <<reminders, dir, fh, buf, prior, loaded>>
    /\ UNCHANGED engine_vars

\* lines 168-169: json.dump writes what is left and the with block closes f
DumpRest(w) ==
    /\ wpc[w] \in {"dump", "dump_rest"}
    /\ LET from == IF wpc[w] = "dump" THEN 0 ELSE Len(buf[w]) - 1
       IN  inodes' = [inodes EXCEPT ![fh[w]] = written(@, buf[w], from, Len(buf[w]))]
    /\ fh' = [fh EXCEPT ![w] = None]
    /\ wpc' = [wpc EXCEPT ![w] = "replace"]
    /\ UNCHANGED <<reminders, dir, buf, prior, loaded>>
    /\ UNCHANGED engine_vars

\* lines 168-169: a write raises; the with block closes f and the exception
\* leaves atomic_write_json
DumpRaises(w) ==
    /\ wpc[w] \in {"dump", "dump_rest"}
    /\ fh' = [fh EXCEPT ![w] = None]
    /\ wpc' = [wpc EXCEPT ![w] = "raised"]
    /\ UNCHANGED <<reminders, dir, inodes, buf, prior, loaded>>
    /\ UNCHANGED engine_vars

\* line 170: os.replace(tmp, path) renames whatever file is called
\* reminders.json.tmp now, and raises FileNotFoundError when there is none;
\* Storage.save goes on to the settings file, line 387 is done
OsReplace(w) ==
    /\ wpc[w] = "replace"
    /\ IF dir.tmp = None
       THEN /\ wpc' = [wpc EXCEPT ![w] = "raised"]
            /\ UNCHANGED dir
       ELSE /\ dir' = [data |-> dir.tmp, tmp |-> None]
            /\ wpc' = [wpc EXCEPT ![w] = IF w = "tk" THEN "settings" ELSE "returned"]
    /\ UNCHANGED <<reminders, inodes, fh, buf, prior, loaded>>
    /\ UNCHANGED engine_vars

\* lines 272-275: atomic_write_json(SETTINGS_FILE, ...) returns or raises, and
\* save re-raises
SettingsWrite ==
    /\ wpc["tk"] = "settings"
    /\ \E done \in {"returned", "raised"} : wpc' = [wpc EXCEPT !["tk"] = done]
    /\ UNCHANGED <<reminders, dir, inodes, fh, buf, prior, loaded>>
    /\ UNCHANGED engine_vars

\* lines 779-780: Storage() and load()
StorageLoad ==
    /\ loaded' = <<load(dir, inodes)>>
    /\ UNCHANGED <<reminders, dir, inodes, fh, buf, prior, wpc>>
    /\ UNCHANGED engine_vars

\* the reminders the store and the prior file are drawn from
StoreReminders ==
    {[Reminder("delay", 1, None, NoExpr) EXCEPT !.next_run_ts = Minute],
     [Reminder("cron", None, None, "* * * * *") EXCEPT !.last_triggered_at = Minute],
     [Reminder("datetime", None, Minute, NoExpr) EXCEPT !.enabled = FALSE]}

\* the stores: no reminder, one, two
Stores == UNION {[1..n -> StoreReminders] : n \in 0..MaxIds}

\* the files a run can find: a snapshot of a store, with one record that
\* from_dict rejects at position k when k > 0, or text that is not JSON
FoundFiles ==
    {[whole |-> FALSE, items |-> <<>>]} \cup
    {[whole |-> TRUE,
      items |-> [j \in 1..Len(f) |->
                   [to_dict(j, f[j]) EXCEPT !.ok = (j # k)]]] :
        f \in Stores, k \in 0..MaxIds}

StoreInit ==
    /\ now = 0
    /\ ticks = 0
    /\ reminders \in Stores
    /\ entries = [j \in 1..Len(reminders) |-> j]
    /\ stop_event = FALSE
    /\ rebuild_event = FALSE
    /\ heap = {}
    /\ seq = 0
    /\ pc = "start"
    /\ fill_ret = "loop"
    /\ fill_i = 0
    /\ fill_used = 0
    /\ now_ts = 0
    /\ wait_sec = 0
    /\ rid = None
    /\ fire_ts = None
    /\ detached = None
    /\ ui_pc = "idle"
    /\ stop_returned = FALSE
    /\ pending = 0
    /\ ops = 0
    /\ off_at = [i \in Ids |-> None]
    /\ ui_hist = [i \in Ids |-> "none"]
    /\ fired = <<>>
    /\ cycle_ts = None
    /\ filled_at = None
    /\ created_at = [i \in Ids |-> None]
    /\ \/ /\ dir = [data |-> None, tmp |-> None]
          /\ inodes = [n \in Inodes |-> EmptyFile]
       \/ /\ dir = [data |-> 1, tmp |-> None]
          /\ \E c \in FoundFiles : inodes = [n \in Inodes |-> IF n = 1 THEN c ELSE EmptyFile]
    /\ fh = [w \in Writers |-> None]
    /\ buf = [w \in Writers |-> <<>>]
    /\ prior = [w \in Writers |-> <<>>]
    /\ wpc = [w \in Writers |-> "idle"]
    /\ loaded = <<>>

StoreNext ==
    \/ StoreDisable
    \/ \E w \in Writers : SaveBegin(w)
    \/ \E w \in Writers : TmpOpen(w)
    \/ \E w \in Writers : DumpSome(w)
    \/ \E w \in Writers : DumpRest(w)
    \/ \E w \in Writers : DumpRaises(w)
    \/ \E w \in Writers : OsReplace(w)
    \/ SettingsWrite
    \/ StorageLoad

SpecStore == StoreInit /\ [][StoreNext]_vars

\* the reminder compute_next_run was applied to, and what it returned
Evaluated == pc = "evaluated"
TheArg == reminders[1]
TheResult == reminders[1].next_run_ts

\* C21: for an enabled datetime reminder that is not consumed, compute_next_run
\* returns base + 1 second, which is after base, when run_at <= base, and
\* run_at itself when run_at > base
C21_DatetimeNext ==
    (/\ pc # "eval"
     /\ TheArg.enabled
     /\ TheArg.kind = "datetime"
     /\ TheArg.run_at_ts # None
     /\ ~(TheArg.last_triggered_at # None /\ TheArg.run_at_ts <= TheArg.last_triggered_at))
        => /\ Evaluated
           /\ TheArg.run_at_ts <= now => (TheResult = now + OneSecond /\ TheResult > now)
           /\ TheArg.run_at_ts > now => TheResult = TheArg.run_at_ts

C21_Witness ==
    /\ Evaluated
    /\ TheArg.enabled
    /\ TheArg.kind = "datetime"
    /\ TheArg.run_at_ts = Minute
    /\ TheArg.last_triggered_at = Minute - 1
    /\ now = Minute
    /\ TheResult = Minute + OneSecond

\* C22: for a datetime reminder with run_at <= last_triggered_at,
\* compute_next_run returns None whatever the base
C22_ConsumedDatetime ==
    (/\ pc # "eval"
     /\ TheArg.kind = "datetime"
     /\ TheArg.run_at_ts # None
     /\ TheArg.last_triggered_at # None
     /\ TheArg.run_at_ts <= TheArg.last_triggered_at)
        => (Evaluated /\ TheResult = None)

C22_Witness ==
    /\ Evaluated
    /\ TheArg.enabled
    /\ TheArg.kind = "datetime"
    /\ TheArg.run_at_ts = Minute
    /\ TheArg.last_triggered_at = Minute
    /\ now = 0
    /\ TheResult = None

\* the local wall-clock reading of instant t is on a minute that is a multiple
\* of 5, seconds zero
OnFiveMinutes(t) == astimezone(t) % (5 * Minute) = 0

\* C23: for the expression */5 * * * * and any base, compute_next_run returns
\* the earliest instant strictly after base whose local minute is a multiple
\* of 5, seconds zero
C23_EveryFiveMinutes ==
    (/\ pc # "eval"
     /\ TheArg.enabled
     /\ TheArg.kind = "cron"
     /\ TheArg.cron_expr = "*/5 * * * *")
        => /\ Evaluated
           /\ TheResult # None
           /\ TheResult > now
           /\ OnFiveMinutes(TheResult)
           /\ \A t \in (now + 1)..(TheResult - 1) : ~OnFiveMinutes(t)

C23_Witness ==
    /\ Evaluated
    /\ TheArg.enabled
    /\ TheArg.kind = "cron"
    /\ TheArg.cron_expr = "*/5 * * * *"
    /\ now = 5 * Minute
    /\ TheResult = 10 * Minute

Corrupt(c) == ~c.whole \/ \E k \in 1..Len(c.items) : ~c.items[k].ok

\* C25: load() on a missing or corrupt reminders file leaves the fresh store
\* with no reminder, also when it is the k-th record that is invalid
C25_CorruptLoadsEmpty ==
    [][(loaded' # loaded /\ (dir.data = None \/ Corrupt(inodes[dir.data])))
          => loaded'[1] = <<>>]_vars

\* the writers that have begun a save
Saving == {w \in Writers : wpc[w] # "idle"}

\* C26: during and after a save the durable file is the complete prior
\* snapshot or the complete new one; a save that failed has left the prior
\* file as it was; no step of a save changes the in-memory set
C26_PriorOrNew ==
    /\ [](Saving # {} => Durable \in {prior[w] : w \in Saving} \cup {New(w) : w \in Saving})
    /\ [](\A w \in Writers :
            (wpc[w] = "raised" /\ Saving = {w}) => Durable = prior[w])
    /\ [][wpc' # wpc => reminders' = reminders]_vars

C28_NextAfterFill ==
    (filled_at # None /\ pc # "fill_it")
        => \A i \in live :
              reminders[i].next_run_ts # None
                  => reminders[i].next_run_ts >= filled_at - OneSecond

\* the presentation layer has not edited, disabled, re-enabled or deleted i
Untouched(i) == i \in live /\ ui_hist[i] = "none" /\ off_at[i] = None

\* the callback invocations for reminder i
CallsOf(i) == {j \in Calls : fired[j].id = i}

\* T0 + m minutes
Deadline(i) == created_at[i] + reminders[i].delay_minutes * Minute

\* C29: an enabled delay reminder that the user leaves alone, with the
\* scheduler not stopped, is delivered once its deadline T0 + m minutes has
\* come, whatever happens to other reminders; it is delivered once, for that
\* deadline within 1 second, and is disabled at its delivery
C29_DelayDelivered ==
    \A i \in Ids :
        /\ []((/\ Untouched(i)
               /\ reminders[i].kind = "delay"
               /\ ~stop_event
               /\ now >= Deadline(i))
                 => <>(CallsOf(i) # {} \/ ~Untouched(i) \/ stop_event))
        /\ [](\A j \in CallsOf(i) :
                (Untouched(i) /\ reminders[i].kind = "delay")
                    => (/\ CallsOf(i) = {j}
                        /\ fired[j].ts >= Deadline(i) - OneSecond
                        /\ fired[j].ts <= Deadline(i) + OneSecond
                        /\ ~fired[j].enabled))

\* C30: a cron reminder the user leaves alone stays enabled, is delivered
\* enabled and once for each occurrence, in the order of the occurrences, and
\* every firing moves its last_triggered_at forward
C30_CronEachOccurrence ==
    /\ [](\A i \in Ids :
            (Untouched(i) /\ reminders[i].kind = "cron")
                => (/\ reminders[i].enabled
                    /\ \A j \in CallsOf(i) :
                          /\ fired[j].enabled
                          /\ astimezone(fired[j].ts) % Minute = 0
                    /\ \A j \in CallsOf(i), k \in CallsOf(i) :
                          j < k => fired[j].ts < fired[k].ts))
    /\ [][(/\ pc = "mark"
           /\ pc' # pc
           /\ rid \in live
           /\ Untouched(rid)
           /\ reminders[rid].kind = "cron"
           /\ reminders[rid].last_triggered_at # None)
             => reminders'[rid].last_triggered_at > reminders[rid].last_triggered_at]_vars

\* C31: when a fill returns, the heap holds exactly one entry for every
\* reminder of the store that is enabled and has an occurrence, stamped with
\* its next_run_ts and not older than the fill minus 1 second, no entry for
\* any other reminder, and a disabled reminder has no next_run_ts
C31_FillPostcondition ==
    [][(pc = "fill_it" /\ pc' \notin {"fill_it", "crashed"})
          => (/\ \A e \in heap' : e[2] \in DOMAIN reminders'
              /\ \A i \in DOMAIN reminders' :
                    LET r == reminders'[i]
                    IN  /\ ~r.enabled => r.next_run_ts = None
                        /\ IF r.enabled /\ r.next_run_ts # None
                           THEN /\ Cardinality(EntriesOf(heap', i)) = 1
                                /\ \A e \in EntriesOf(heap', i) :
                                      /\ e[1] = r.next_run_ts
                                      /\ e[1] >= filled_at - OneSecond
                           ELSE EntriesOf(heap', i) = {})]_vars

\* C32: the wait never exceeds 3600 seconds; an entry leaves the heap only at
\* the re-check after a timed-out wait and only when its timestamp is at most
\* now + 0.1 s; a re-check that finds the earliest entry later than that goes
\* back to the loop with the heap untouched and no callback; and the reminder
\* being fired was due at the clock reading of its re-check
C32_NeverPremature ==
    /\ [](wait_sec \in 0..MaxWait)
    /\ []((pc \in {"mark", "rearm", "deliver", "write_failed"})
             => fire_ts <= now_ts + Tolerance)
    /\ [][(pc = "recheck" /\ pc' # pc /\ ~(heap # {} /\ HeapTop(heap)[1] <= now + Tolerance))
             => (heap' = heap /\ fired' = fired /\ pc' = "loop")]_vars
    /\ [][(\E e \in heap : e \notin heap') /\ pc \notin {"start", "fill"}
             => (/\ pc = "recheck"
                 /\ heap \ heap' = {HeapTop(heap)}
                 /\ HeapTop(heap)[1] <= now + Tolerance)]_vars

C32_Witness ==
    /\ pc = "recheck"
    /\ now = MaxWait
    /\ heap = {<<MaxWait + Minute, 1, 0>>}
    /\ fired = <<>>

\* C33: a wait that returns with the rebuild signal set goes to the refill:
\* the signal is cleared, the heap is emptied and filled again, and from the
\* wake to the end of the refill no entry is popped and no callback invoked
C33_SignalRefillsFirst ==
    /\ [][(pc = "wait" /\ rebuild_event /\ pc' # pc)
             => (pc' = "clear_wait" /\ heap' = heap /\ fired' = fired)]_vars
    /\ [][(pc = "clear_wait" /\ pc' # pc)
             => (pc' = "fill" /\ ~rebuild_event' /\ heap' = heap /\ fired' = fired)]_vars
    /\ [][(pc = "fill" /\ pc' # pc)
             => (pc' = "fill_it" /\ heap' = {} /\ fired' = fired)]_vars
    /\ [][pc = "fill_it"
             => (/\ pc' \in {"fill_it", fill_ret, "crashed"}
                 /\ heap \subseteq heap'
                 /\ fired' = fired)]_vars

C33_Witness ==
    /\ pc = "clear_wait"
    /\ heap # {}
    /\ HeapTop(heap)[1] <= now + Tolerance
    /\ ~Discarded(HeapTop(heap)[2])

\* the fields of a reminder the scheduler loop has no business writing
RuleOf(r) == <<r.kind, r.delay_minutes, r.run_at_ts, r.cron_expr>>

\* C34: a step of the scheduler thread adds no reminder to the store and
\* removes none, leaves kind, delay_minutes, run_at_ts, cron_expr and
\* created_at of every reminder as they were, and while it fires a reminder
\* it changes no other reminder
C34_BookkeepingOnly ==
    [][(sched_vars' # sched_vars)
          => (/\ DOMAIN reminders' = DOMAIN reminders
              /\ created_at' = created_at
              /\ \A i \in DOMAIN reminders : RuleOf(reminders'[i]) = RuleOf(reminders[i])
              /\ \A i \in DOMAIN reminders :
                    (pc \in {"recheck", "mark", "rearm", "deliver", "write_failed"}
                     /\ i # rid)
                        => reminders'[i] = reminders[i])]_vars

C34_Witness ==
    /\ pc = "deliver"
    /\ rid \in live
    /\ Cardinality(live) > 1
    /\ reminders[rid].last_triggered_at # None
    /\ reminders[rid].kind = "delay"
    /\ reminders[rid].delay_minutes # None
    /\ ~reminders[rid].enabled

\* C35: rebuild() and stop() set their signals and nothing else: the heap, the
\* sequence counter and the store are as before the call; and the heap and
\* the counter change only in a step of the scheduler thread, in _fill_heap,
\* at the pop and at the re-arm
C35_SignalsOnly ==
    /\ [][(ui_pc = "rebuild" /\ ui_pc' # ui_pc)
             => (rebuild_event' /\ UNCHANGED <<heap, seq, reminders, entries, stop_event>>)]_vars
    /\ [][(ui_pc # "stopping" /\ ui_pc' = "stopping")
             => (stop_event' /\ UNCHANGED <<heap, seq, reminders, entries, rebuild_event>>)]_vars
    /\ [][(ui_pc = "stopping" /\ ui_pc' # ui_pc)
             => (/\ rebuild_event'
                 /\ stop_event'
                 /\ UNCHANGED <<heap, seq, reminders, entries>>)]_vars
    /\ [][(heap' # heap \/ seq' # seq)
             => (/\ pc \in {"start", "fill", "fill_it", "recheck", "rearm"}
                 /\ (pc' # pc \/ fill_i' # fill_i)
                 /\ UNCHANGED ui_vars)]_vars

C35_Witness ==
    /\ stop_returned
    /\ stop_event
    /\ rebuild_event
    /\ heap # {}
    /\ pc = "wait"

\* C36: the reminder handed to the callback carries the bookkeeping of its
\* firing: last_triggered_at is the firing time; a one-shot reminder is
\* disabled with no next_run_ts; a cron reminder with a next occurrence has
\* that occurrence in the heap
C36_BookkeepingBeforeCallback ==
    [][(Len(fired') > Len(fired))
          => (/\ pc \in {"deliver", "write_failed"}
              /\ TheReminder.last_triggered_at = now_ts
              /\ TheReminder.kind # "cron"
                    => (~TheReminder.enabled /\ TheReminder.next_run_ts = None)
              /\ (TheReminder.kind = "cron" /\ TheReminder.next_run_ts # None)
                    => \E e \in EntriesOf(heap, rid) : e[1] = TheReminder.next_run_ts)]_vars

\* C37: the heap never holds two entries for the same reminder id, whatever
\* fills, firings and cron re-arms have happened
C37_OneEntryPerId ==
    \A i \in Ids : Cardinality(EntriesOf(heap, i)) <= 1

C37_Witness ==
    /\ pc = "wait"
    /\ cycle_ts = None
    /\ \E j \in Calls :
          /\ fired[j].kind = "cron"
          /\ fired[j].id \in live
          /\ reminders[fired[j].id].kind = "cron"
          /\ Cardinality(EntriesOf(heap, fired[j].id)) = 1

\* the rule fields of the kinds other than r's own are cleared
OneRule(r) ==
    /\ r.kind # "delay" => r.delay_minutes = None
    /\ r.kind # "datetime" => r.run_at_ts = None
    /\ r.kind # "cron" => r.cron_expr = NoExpr

\* C38: an edit that save_edit accepts leaves the reminder enabled, with no
\* last_triggered_at, with the rule of its kind only and with next_run_ts
\* computed anew, and goes on to rebuild(), which sets the signal; when a
\* fill returns with no rebuild() outstanding and the signal clear (every
\* edit so far was followed by this fill), an edited reminder that is
\* enabled and whose rule yields an occurrence has an entry in the heap
C38_EditRearms ==
    /\ [][\A i \in live :
            (ui_hist[i] # "edited" /\ ui_hist'[i] = "edited" /\ ui_pc' # "error_box")
                => (/\ reminders'[i].enabled
                    /\ reminders'[i].last_triggered_at = None
                    /\ OneRule(reminders'[i])
                    /\ reminders'[i].next_run_ts = compute_next_run(reminders'[i], now)
                    /\ ui_pc' = "rebuild")]_vars
    /\ [][(ui_pc = "rebuild" /\ ui_pc' # ui_pc) => rebuild_event']_vars
    /\ [][(/\ pc = "fill_it" /\ pc' \notin {"fill_it", "crashed"}
           /\ ui_pc # "rebuild" /\ ~rebuild_event)
            => \A i \in DOMAIN reminders' :
                  (/\ ui_hist[i] = "edited"
                   /\ reminders'[i].enabled
                   /\ reminders'[i].next_run_ts # None)
                      => EntriesOf(heap', i) # {}]_vars

====
